---------------------------- MODULE Spec2Model ----------------------------
(***************************************************************************)
(* A model of the weather data-lake pipeline: the ingestion script         *)
(* (src/src/data-recovery.py), the merge/derive script                     *)
(* (src/src/data-preprocessing.py), the clustering script                  *)
(* (src/src/data-classification.py) and the Airflow DAG that sequences     *)
(* them (src/dags/openweather_data_lake.py).                               *)
(*                                                                         *)
(* Each script is modelled by its own specification over its own group of  *)
(* variables; the other groups stay at their initial value.                *)
(***************************************************************************)
EXTENDS Integers, Sequences, FiniteSets, TLC

VARIABLES
    \* ---- the buckets ----
    rawStore,       \* bucket "raw": object key -> content
    stagingStore,   \* bucket "staging": object key -> content
    curatedStore,   \* bucket "curated": object key -> content
    \* ---- data-recovery.py ----
    rpc,            \* position of main(): "start", "gather", "done"
    dirResponse,    \* the REST Countries response main() received
    capitals,       \* list of {"country", "city"} entries
    results,        \* per request: "pending" or what fetch_weather_data returned
    weather_data,   \* the result map city -> snapshot or error sentinel
    error_log,      \* the list dumped to the error log file
    logFiles,       \* the error log files written by this run
    clock,          \* datetime.now(), in seconds
    rexit,          \* exit status of the script: "running", "exit 0", "exit 1"
    runLog,         \* one record per finished run of the script: [reached, key, df]
    getCalls,       \* request -> number of session.get(BASE_URL) calls made for it
    \* ---- data-preprocessing.py ----
    ppc,            \* position of main(): "start", "listed", "downloaded", "done"
    all_files,      \* the keys listed under the known prefixes
    list_df,        \* the batches downloaded and parsed
    merged_df,      \* pd.concat(list_df), then preprocess_data(merged_df)
    concat_df,      \* the value of pd.concat(list_df), kept for reference
    pexit,          \* exit status of the script
    \* ---- data-classification.py ----
    cpc,            \* position of main(): "start", "downloaded", "clustered",
                    \* "uploaded", "done"
    df_weather,     \* the staging dataset as downloaded
    df_with_clusters, \* the DataFrame main() holds after the clustering
    cexit,          \* exit status of the script
    fitLog,         \* the KMeans fits made so far: [data, k, seed, labels]
    crun,           \* number of the current run of the script
    \* ---- dags/openweather_data_lake.py ----
    taskState,      \* task -> "none", "running", "up_for_retry", "success",
                    \* "failed", "upstream_failed"
    tries,          \* task -> number of attempts started
    lastRun,        \* task -> what its last attempt met: [fatal, exit]
    \* ---- data-preprocessing.py : the numba kernels on one row ----
    kernelIn,       \* [day_of_year, lat, temp] handed to the kernel
    kernelOut       \* [season, temperature_category], or <<>> before the call

storeVars == <<rawStore, stagingStore, curatedStore>>

recoveryVars == <<rpc, dirResponse, capitals, results, weather_data,
                  error_log, logFiles, clock, rexit, runLog, getCalls>>

preprocessVars == <<ppc, all_files, list_df, merged_df, concat_df, pexit>>

clusterVars == <<cpc, df_weather, df_with_clusters, cexit, fitLog, crun>>

dagVars == <<taskState, tries, lastRun>>

kernelVars == <<kernelIn, kernelOut>>

vars == <<storeVars, recoveryVars, preprocessVars, clusterVars, dagVars, kernelVars>>

\* The scripts that a specification does not run stay idle.
RecoveryIdle ==
    /\ rpc = "idle"
    /\ dirResponse = <<>>
    /\ capitals = <<>>
    /\ results = <<>>
    /\ weather_data = <<>>
    /\ error_log = <<>>
    /\ logFiles = <<>>
    /\ clock = 0
    /\ rexit = "idle"
    /\ runLog = <<>>
    /\ getCalls = <<>>

PreprocessIdle ==
    /\ ppc = "idle"
    /\ all_files = <<>>
    /\ list_df = <<>>
    /\ merged_df = <<>>
    /\ concat_df = <<>>
    /\ pexit = "idle"

ClusterIdle ==
    /\ cpc = "idle"
    /\ df_weather = <<>>
    /\ df_with_clusters = <<>>
    /\ cexit = "idle"
    /\ fitLog = {}
    /\ crun = 0

DagIdle ==
    /\ taskState = <<>>
    /\ tries = <<>>
    /\ lastRun = <<>>

KernelIdle ==
    /\ kernelIn = <<>>
    /\ kernelOut = <<>>

-----------------------------------------------------------------------------
(* Generic helpers *)

Range(s) == {s[i] : i \in 1..Len(s)}

SeqsUpTo(S, n) == UNION {[1..k -> S] : k \in 0..n}

-----------------------------------------------------------------------------
(* data-recovery.py : CapitalDirectory *)

MaxCountries == 2

\* The number of runs of data-recovery.py against one raw bucket.
MaxIngestRuns == 2

NoCapital == "No Capital"
UnknownCountry == "Unknown Country"

\* CAPITALS_MAPPING, as a set of <<raw, normalised>> pairs.  The first key
\* ends in an e with a macron in the source, written "e-" here.
CAPITALS_MAPPING ==
    {<<"Papeete-", "Papeete">>, <<"St. Peter Port", "Saint-Pierre-Port">>}

AliasKeys == {p[1] : p \in CAPITALS_MAPPING}

normalize_capital_name_identity(capital) == capital

normalize_capital_name(capital) ==
    IF capital \in AliasKeys
    THEN (CHOOSE p \in CAPITALS_MAPPING : p[1] = capital)[2]
    ELSE capital

\* The shapes the "name" field of a directory entry may have:
\*   "dict"   {"common": c}            "nocommon"  a dict without "common"
\*   "absent" no "name" key            "str"       a bare string (unexpected)
NameShapes ==
    {[kind |-> "dict", common |-> c] : c \in {"Jamaica", "Norfolk Island"}}
    \cup {[kind |-> k, common |-> ""] : k \in {"nocommon", "absent", "str"}}

\* The shapes the "capital" field may have:
\*   "list"   a list of city names (possibly empty)
\*   "absent" no "capital" key
\*   "str"    a bare string instead of a list (unexpected); items = <<it>>
CapitalShapes ==
    {[kind |-> "list", items |-> l] :
        l \in {<<>>, <<"Kingston">>, <<"St. Peter Port">>}}
    \cup {[kind |-> "absent", items |-> <<>>],
          [kind |-> "str", items |-> <<"Kingston">>]}

DirEntries == [name : NameShapes, capital : CapitalShapes]

\* What session.get(COUNTRIES_API_URL) may yield.
DirResponses ==
    {[status |-> 200, countries |-> cs] : cs \in SeqsUpTo(DirEntries, MaxCountries)}
    \cup {[status |-> 503, countries |-> <<>>],     \* non-success status
          [status |-> 0, countries |-> <<>>]}       \* session.get raised

\* country.get('name', {}).get('common', 'Unknown Country'); a name that is
\* not a dict has no .get: AttributeError.
EntryRaises(e) == e.name.kind = "str"

EntryName(e) ==
    IF e.name.kind = "dict" THEN e.name.common ELSE UnknownCountry

\* First character of a string, for capital_list[0] on a bare string.
FirstChar(s) ==
    IF s = "Kingston" THEN "K" ELSE IF s = "St. Peter Port" THEN "S" ELSE s

\* capital_list[0] if capital_list else 'No Capital'
EntryCapital(e) ==
    IF e.capital.kind = "list" /\ Len(e.capital.items) > 0
    THEN e.capital.items[1]
    ELSE IF e.capital.kind = "str" /\ Len(e.capital.items) > 0
    THEN FirstChar(e.capital.items[1])
    ELSE NoCapital

RECURSIVE CapitalsLoop(_, _)
\* The body of "for country in countries", from entry i on.
CapitalsLoop(countries, i) ==
    IF i > Len(countries) THEN <<>>
    ELSE LET e == countries[i]
             capital == normalize_capital_name(EntryCapital(e))
             rest == CapitalsLoop(countries, i + 1)
         IN IF capital # NoCapital
            THEN <<[country |-> EntryName(e), city |-> capital]>> \o rest
            ELSE rest

fetch_capitals_from_api(resp) ==
    IF resp.status = 0 THEN <<>>                     \* except Exception
    ELSE IF resp.status # 200 THEN <<>>
    ELSE IF \E i \in 1..Len(resp.countries) : EntryRaises(resp.countries[i])
         THEN <<>>                                   \* except Exception
    ELSE CapitalsLoop(resp.countries, 1)


-----------------------------------------------------------------------------
(* data-recovery.py : WeatherFetcher *)

\* What session.get(BASE_URL) may yield for one city: a 200 with a JSON
\* document, a client error, a server error, or an exception (timeout,
\* connection error), written "raised".
WeatherResponses == {"200", "404", "500", "raised"}

Pending(i) == [kind |-> "pending", req |-> i, detail |-> ""]

\* A task that hands back its result under the first request's identity.
fetch_weather_data_as_first(http, i) ==
    IF http = "200" THEN [kind |-> "snapshot", req |-> 1, detail |-> ""]
    ELSE IF http = "raised" THEN [kind |-> "error", req |-> 1, detail |-> "str(e)"]
    ELSE [kind |-> "error", req |-> 1, detail |-> "Status " \o http]

\* The value fetch_weather_data returns for request i.  A snapshot is
\* identified by the request that fetched it.
fetch_weather_data(http, i) ==
    IF http = "200" THEN [kind |-> "snapshot", req |-> i, detail |-> ""]
    ELSE IF http = "raised" THEN [kind |-> "error", req |-> i, detail |-> "str(e)"]
    ELSE [kind |-> "error", req |-> i, detail |-> "Status " \o http]

ErrorSentinel == [kind |-> "error", req |-> 0, detail |-> "Erreur lors de la recuperation"]

EmptyMap == [c \in {} |-> ErrorSentinel]

\* d[k] = v for a Python dict held as a function.
DictSet(d, k, v) == [c \in DOMAIN d \cup {k} |-> IF c = k THEN v ELSE d[c]]

\* The test without its "error" not in result half.
IsSuccess_any_dict(result) == result.kind \in {"snapshot", "error"}

\* isinstance(result, dict) and "error" not in result
IsSuccess(result) == result.kind = "snapshot"

RECURSIVE FanInLoop(_, _, _, _, _)
\* "for capital, result in zip(capitals, results)", from pair i on; yields
\* <<weather_data, error_log>>.
FanInLoop(caps, res, i, wd, log) ==
    IF i > Len(caps) \/ i > Len(res) THEN <<wd, log>>
    ELSE LET city == caps[i].city
             country == caps[i].country
         IN IF IsSuccess(res[i])
            THEN FanInLoop(caps, res, i + 1, DictSet(wd, city, res[i]), log)
            ELSE FanInLoop(caps, res, i + 1, DictSet(wd, city, ErrorSentinel),
                           Append(log, [city |-> city, country |-> country,
                                        error |-> res[i]]))

\* weather_data.get(city, {})
DictGet(d, k) == IF k \in DOMAIN d THEN d[k] ELSE [kind |-> "empty", req |-> 0, detail |-> ""]

RECURSIVE ConvertLoop(_, _, _)
\* "for capital in capitals" of convert_weather_data_to_dataframe.
ConvertLoop(wd, caps, i) ==
    IF i > Len(caps) THEN <<>>
    ELSE LET data == DictGet(wd, caps[i].city)
             rest == ConvertLoop(wd, caps, i + 1)
         IN IF data.kind = "error" THEN rest
            ELSE <<[country |-> caps[i].country, city |-> caps[i].city,
                    snapshot |-> data.req]>> \o rest

convert_weather_data_to_dataframe(wd, caps) == ConvertLoop(wd, caps, 1)

\* upload_dataframe_to_s3: put_object under object_name; a failing put is
\* caught and printed.
upload_dataframe_to_s3(store, object_name, df, putOk) ==
    IF putOk THEN DictSet(store, object_name, df) ELSE store

ObjectName(now) == <<"weather_data_", now>>
LogFilePath(now) == <<"errors_data_recovery_", now>>

-----------------------------------------------------------------------------
(* data-recovery.py : main() *)

RecoveryInit ==
    /\ rpc = "start"
    /\ dirResponse = [status |-> 0, countries |-> <<>>]
    /\ capitals = <<>>
    /\ results = <<>>
    /\ weather_data = EmptyMap
    /\ error_log = <<>>
    /\ logFiles = EmptyMap
    /\ rawStore = EmptyMap
    /\ stagingStore = EmptyMap
    /\ curatedStore = EmptyMap
    /\ clock = 1
    /\ rexit = "running"
    /\ runLog = <<>>
    /\ getCalls = <<>>
    /\ PreprocessIdle
    /\ ClusterIdle
    /\ DagIdle
    /\ KernelIdle

\* main() up to the point where the weather requests are in flight:
\* fetch_capitals_from_api, the "if not capitals: return", and the creation
\* of one task per capital.
DirectoryResponds ==
    /\ rpc = "start"
    /\ \E resp \in DirResponses :
         LET caps == fetch_capitals_from_api(resp) IN
         /\ dirResponse' = resp
         /\ capitals' = caps
         /\ IF caps = <<>>
            THEN /\ rpc' = "done"
                 /\ rexit' = "exit 0"
                 /\ results' = <<>>
                 /\ getCalls' = <<>>
            ELSE /\ rpc' = "gather"
                 /\ rexit' = rexit
                 /\ results' = [i \in 1..Len(caps) |-> Pending(i)]
                 /\ getCalls' = [i \in 1..Len(caps) |-> 0]
    /\ UNCHANGED <<weather_data, error_log, logFiles, clock, runLog>>
    /\ UNCHANGED <<storeVars, preprocessVars, clusterVars, dagVars, kernelVars>>

\* One request of the batch completes (in any order).
TaskCompletes ==
    /\ rpc = "gather"
    /\ \E i \in 1..Len(results) :
         /\ results[i].kind = "pending"
         /\ \E http \in WeatherResponses :
              results' = [results EXCEPT ![i] = fetch_weather_data(http, i)]
         /\ getCalls' = [getCalls EXCEPT ![i] = @ + 1]
    /\ UNCHANGED <<rpc, dirResponse, capitals, weather_data, error_log,
                   logFiles, clock, rexit, runLog>>
    /\ UNCHANGED <<storeVars, preprocessVars, clusterVars, dagVars, kernelVars>>

\* asyncio.gather returns: the fan-in loop, the error log file, and the rest
\* of main() (convert, upload, normal return).
FanIn ==
    /\ rpc = "gather"
    /\ \A i \in 1..Len(results) : results[i].kind # "pending"
    /\ LET out == FanInLoop(capitals, results, 1, EmptyMap, <<>>)
           df == convert_weather_data_to_dataframe(out[1], capitals)
       IN /\ weather_data' = out[1]
          /\ error_log' = out[2]
          /\ logFiles' = DictSet(logFiles, LogFilePath(clock), out[2])
          /\ \E putOk \in BOOLEAN :
               rawStore' = upload_dataframe_to_s3(rawStore, ObjectName(clock), df, putOk)
    /\ rpc' = "done"
    /\ rexit' = "exit 0"
    /\ UNCHANGED <<dirResponse, capitals, results, clock, runLog, getCalls>>
    /\ UNCHANGED <<stagingStore, curatedStore, preprocessVars, clusterVars, dagVars, kernelVars>>

RecoveryNext == DirectoryResponds \/ TaskCompletes \/ FanIn

\* ---- the script run again and again on the same raw bucket ----

\* The directory answers of the repeated runs: a failure, or one country
\* with no capital, a plain capital or an alias-keyed capital.
IngestDirResponses ==
    {r \in DirResponses :
        \/ r.status = 503
        \/ /\ r.status = 200
           /\ Len(r.countries) = 1
           /\ r.countries[1].name = [kind |-> "dict", common |-> "Jamaica"]
           /\ r.countries[1].capital.kind = "list"}

\* One whole run of main().  datetime.now() is read to the second: the run
\* sees the second of the previous run or a later one.
IngestRun ==
    /\ rpc = "start"
    /\ Len(runLog) < MaxIngestRuns
    /\ \E resp \in IngestDirResponses, advance \in {0, 1} :
         LET now == clock + advance
             caps == fetch_capitals_from_api(resp)
         IN /\ clock' = now
            /\ IF caps = <<>>
               THEN /\ runLog' = Append(runLog, [reached |-> FALSE, key |-> ObjectName(now),
                                                 df |-> <<>>])
                    /\ UNCHANGED <<rawStore, logFiles>>
               ELSE \E http \in [1..Len(caps) -> WeatherResponses], putOk \in BOOLEAN :
                      LET res == [i \in 1..Len(caps) |-> fetch_weather_data(http[i], i)]
                          out == FanInLoop(caps, res, 1, EmptyMap, <<>>)
                          df == convert_weather_data_to_dataframe(out[1], caps)
                      IN /\ logFiles' = DictSet(logFiles, LogFilePath(now), out[2])
                         /\ rawStore' = upload_dataframe_to_s3(rawStore, ObjectName(now),
                                                               df, putOk)
                         /\ runLog' = Append(runLog, [reached |-> TRUE,
                                                      key |-> ObjectName(now), df |-> df])
    /\ UNCHANGED <<rpc, dirResponse, capitals, results, weather_data, error_log, rexit,
                   getCalls, stagingStore, curatedStore, preprocessVars, clusterVars, dagVars,
                   kernelVars>>

SpecIngest == RecoveryInit /\ [][IngestRun]_vars

\* fetch_capitals_from_api alone, over every directory response.
SpecDirectory == RecoveryInit /\ [][DirectoryResponds]_vars

SpecRecovery == RecoveryInit /\ [][RecoveryNext]_vars

-----------------------------------------------------------------------------
(* data-preprocessing.py : tabular data *)

\* A DataFrame is [columns, rows, raised]: the column names in order, the
\* rows (each a function from the column names to a cell) and the exception
\* raised while computing it ("" when none).  A cell is <<>> (NaN / NaT) or
\* <<v>>.  Units of the numeric cells: temperatures in hundredths of a
\* degree, speed in hundredths of m/s, humidity in percent, timestamps and
\* datetimes in seconds since the epoch, daylight_duration in 1/3600 hour,
\* thermal_comfort_index in millionths of a degree.
NaN == <<>>

DataFrame(cols, rows) == [columns |-> cols, rows |-> rows, raised |-> ""]

ColSet(df) == Range(df.columns)

HasCol(df, c) == c \in ColSet(df)

Raise(df, exc) == [df EXCEPT !.raised = exc]

RECURSIVE SeqFilter(_, _)
\* The elements of s for which keep[i] holds, in order.
SeqFilter(s, keep) ==
    IF s = <<>> THEN <<>>
    ELSE IF Head(keep) THEN <<Head(s)>> \o SeqFilter(Tail(s), Tail(keep))
    ELSE SeqFilter(Tail(s), Tail(keep))

\* df[col] = F(row) for every row: a new column goes last, an existing one
\* is replaced in place.  Reading a column that is absent is a KeyError.
SetColumn(df, needs, col, F(_)) ==
    IF df.raised # "" THEN df
    ELSE IF ~(needs \subseteq ColSet(df)) THEN Raise(df, "KeyError")
    ELSE [columns |-> IF HasCol(df, col) THEN df.columns ELSE Append(df.columns, col),
          rows |-> [i \in 1..Len(df.rows) |->
                      [c \in ColSet(df) \cup {col} |->
                          IF c = col THEN F(df.rows[i]) ELSE df.rows[i][c]]],
          raised |-> ""]

\* df[order]: the columns of `order`, in that order.
SelectColumns(df, order) ==
    IF df.raised # "" THEN df
    ELSE IF ~(Range(order) \subseteq ColSet(df)) THEN Raise(df, "KeyError")
    ELSE [columns |-> order,
          rows |-> [i \in 1..Len(df.rows) |-> [c \in Range(order) |-> df.rows[i][c]]],
          raised |-> ""]

\* df.drop(columns=cs, errors='ignore')
DropColumns(df, cs) ==
    SelectColumns(df, SeqFilter(df.columns, [i \in 1..Len(df.columns) |-> df.columns[i] \notin cs]))

\* df.rename(columns=mapping), mapping a set of <<old, new>> pairs.
NewName(mapping, c) ==
    IF \E p \in mapping : p[1] = c THEN (CHOOSE p \in mapping : p[1] = c)[2] ELSE c

OldName(mapping, df, n) == CHOOSE c \in ColSet(df) : NewName(mapping, c) = n

RenameColumns(df, mapping) ==
    IF df.raised # "" THEN df
    ELSE LET cols == [i \in 1..Len(df.columns) |-> NewName(mapping, df.columns[i])]
         IN [columns |-> cols,
             rows |-> [i \in 1..Len(df.rows) |->
                         [n \in Range(cols) |-> df.rows[i][OldName(mapping, df, n)]]],
             raised |-> ""]

\* Rows of a frame, kept where keep(row) holds (boolean indexing).
FilterRows(df, keep(_)) ==
    IF df.raised # "" THEN df
    ELSE [df EXCEPT !.rows = SeqFilter(df.rows, [i \in 1..Len(df.rows) |-> keep(df.rows[i])])]

\* df.duplicated(): row i repeats an earlier row (NaN equal to NaN).
Duplicated(rows, i) == \E j \in 1..(i - 1) : rows[j] = rows[i]

drop_duplicates_keep_all(df) == df

\* df.drop_duplicates(): the first occurrence of every row is kept.
drop_duplicates(df) ==
    IF df.raised # "" THEN df
    ELSE [df EXCEPT !.rows = SeqFilter(df.rows, [i \in 1..Len(df.rows) |-> ~Duplicated(df.rows, i)])]

RECURSIVE UnionColumns(_, _)
\* The union of the batches' columns, in order of first appearance.
UnionColumns(dfs, acc) ==
    IF dfs = <<>> THEN acc
    ELSE LET cols == Head(dfs).columns
             fresh == SeqFilter(cols, [i \in 1..Len(cols) |-> cols[i] \notin Range(acc)])
         IN UnionColumns(Tail(dfs), acc \o fresh)

\* A row of a batch widened to `cols`; a column the batch lacks reads NaN.
PadRow(row, cols) == [c \in Range(cols) |-> IF c \in DOMAIN row THEN row[c] ELSE NaN]

RECURSIVE ConcatRows(_, _)
ConcatRows(dfs, cols) ==
    IF dfs = <<>> THEN <<>>
    ELSE LET rows == Head(dfs).rows
         IN [i \in 1..Len(rows) |-> PadRow(rows[i], cols)] \o ConcatRows(Tail(dfs), cols)

\* pd.concat(list_df, ignore_index=True)
concat(dfs) ==
    LET cols == UnionColumns(dfs, <<>>)
    IN DataFrame(cols, ConcatRows(dfs, cols))

-----------------------------------------------------------------------------
(* data-preprocessing.py : the numeric kernel *)

IsLeap(y) == (y % 4 = 0 /\ y % 100 # 0) \/ y % 400 = 0

YearLen(y) == IF IsLeap(y) THEN 366 ELSE 365

RECURSIVE DayOfYearFrom(_, _)
\* Day of the year (1..366) of the day `days` days after 1 January of `year`.
DayOfYearFrom(year, days) ==
    IF days < 0 THEN DayOfYearFrom(year - 1, days + YearLen(year - 1))
    ELSE IF days >= YearLen(year) THEN DayOfYearFrom(year + 1, days - YearLen(year))
    ELSE days + 1

\* Series.dt.dayofyear of a datetime held in seconds since 1970-01-01.
dayofyear(epoch) == DayOfYearFrom(1970, epoch \div 86400)

\* get_season_num with the Northern table for both hemispheres.
get_season_num_northern_only(day_of_year, lat) ==
    LET d == IF day_of_year = NaN THEN -1 ELSE day_of_year[1]
    IN IF 80 <= d /\ d < 172 THEN 0
       ELSE IF 172 <= d /\ d < 264 THEN 1
       ELSE IF 264 <= d /\ d < 355 THEN 2
       ELSE 3

\* get_season_num: 0 Spring, 1 Summer, 2 Autumn, 3 Winter.  A NaN operand
\* makes every comparison false.
get_season_num(day_of_year, lat) ==
    LET d == IF day_of_year = NaN THEN -1 ELSE day_of_year[1]
        known == day_of_year # NaN
    IN IF lat # NaN /\ lat[1] > 0
       THEN IF known /\ 80 <= d /\ d < 172 THEN 0
            ELSE IF known /\ 172 <= d /\ d < 264 THEN 1
            ELSE IF known /\ 264 <= d /\ d < 355 THEN 2
            ELSE 3
       ELSE IF known /\ 80 <= d /\ d < 172 THEN 2
            ELSE IF known /\ 172 <= d /\ d < 264 THEN 3
            ELSE IF known /\ 264 <= d /\ d < 355 THEN 0
            ELSE 1

\* categorize_temperature_num handed the Kelvin value of a Celsius temperature.
categorize_temperature_num_on_kelvin(temp) ==
    IF temp # NaN /\ temp[1] + 27315 < 0 THEN 0
    ELSE IF temp # NaN /\ temp[1] + 27315 < 1000 THEN 1
    ELSE IF temp # NaN /\ temp[1] + 27315 < 2500 THEN 2
    ELSE 3

\* categorize_temperature_num, on hundredths of a degree:
\* 0 Very Cold, 1 Cold, 2 Moderate, 3 Hot.
categorize_temperature_num(temp) ==
    IF temp # NaN /\ temp[1] < 0 THEN 0
    ELSE IF temp # NaN /\ temp[1] < 1000 THEN 1
    ELSE IF temp # NaN /\ temp[1] < 2500 THEN 2
    ELSE 3

map_season_code_to_str(code) == <<"Spring", "Summer", "Autumn", "Winter">>[code + 1]

map_temp_cat_code_to_str(code) == <<"Very Cold", "Cold", "Moderate", "Hot">>[code + 1]

\* ---- the kernels on one row: every day of the year, both hemispheres ----

\* The largest value of local_datetime.dt.dayofyear fed to the kernel.
MaxDayOfYear == 366

\* Latitudes in hundredths of a degree: two Southern, the equator, two Northern.
KernelLatitudes == {-3387, -1, 0, 1, 4885}

\* Celsius temperatures in hundredths of a degree, one per category.
KernelTemperatures == {-500, 500, 1500, 3000}

KernelInit ==
    /\ kernelIn \in [day_of_year : {<<d>> : d \in 1..MaxDayOfYear},
                      lat : {<<l>> : l \in KernelLatitudes},
                      temp : {<<t>> : t \in KernelTemperatures}]
    /\ kernelOut = <<>>
    /\ rawStore = EmptyMap
    /\ stagingStore = EmptyMap
    /\ curatedStore = EmptyMap
    /\ RecoveryIdle
    /\ PreprocessIdle
    /\ ClusterIdle
    /\ DagIdle

\* One iteration of the prange loop of compute_season_and_temp_category,
\* followed by the two code-to-string mappings of preprocess_data.
ComputeSeasonAndTempCategory ==
    /\ kernelOut = <<>>
    /\ kernelOut' =
         [season |-> map_season_code_to_str(
                         get_season_num(kernelIn.day_of_year, kernelIn.lat)),
          temperature_category |-> map_temp_cat_code_to_str(
                         categorize_temperature_num(kernelIn.temp))]
    /\ UNCHANGED <<kernelIn, storeVars, recoveryVars, preprocessVars, clusterVars, dagVars>>

SpecKernel == KernelInit /\ [][ComputeSeasonAndTempCategory]_vars

-----------------------------------------------------------------------------
(* data-preprocessing.py : preprocess_data *)

\* pd.to_datetime(x, unit="s") and pd.to_timedelta(x, unit="s")
to_datetime(cell) == IF cell = NaN THEN NaN ELSE <<[epoch |-> cell[1]]>>
to_timedelta(cell) == IF cell = NaN THEN NaN ELSE <<[seconds |-> cell[1]]>>

DatetimePlus(dt, td) ==
    IF dt = NaN \/ td = NaN THEN NaN ELSE <<[epoch |-> dt[1].epoch + td[1].seconds]>>

DatetimeMinus(a, b) ==
    IF a = NaN \/ b = NaN THEN NaN ELSE <<[seconds |-> a[1].epoch - b[1].epoch]>>

\* td.dt.total_seconds() / 3600, kept as a fraction.
TotalHours(td) == IF td = NaN THEN NaN ELSE <<[num |-> td[1].seconds, den |-> 3600]>>

Minus(a, b) == IF a = NaN \/ b = NaN THEN NaN ELSE <<a[1] - b[1]>>

\* 273.15, in hundredths of a degree.
KelvinOffset == <<27315>>

\* temp - (0.55 * (1 - humidity / 100) * (temp - 14.5)) - (0.2 * speed), in
\* millionths of a degree (temp and speed in hundredths, humidity in percent).
ThermalComfort(temp, humidity, speed) ==
    IF temp = NaN \/ humidity = NaN \/ speed = NaN THEN NaN
    ELSE <<10000 * temp[1] - 55 * (100 - humidity[1]) * (temp[1] - 1450) - 2000 * speed[1]>>

DayOfYearCell(dt) == IF dt = NaN THEN NaN ELSE <<dayofyear(dt[1].epoch)>>

\* 1. df.drop_duplicates()
StepDuplicates(df) == drop_duplicates(df)

StepStatus_no_filter(df) == df

\* 2. if "cod" in df.columns: df = df[df["cod"] == 200]
StepStatus(df) ==
    IF HasCol(df, "cod") THEN FilterRows(df, LAMBDA r : r["cod"] = <<200>>) ELSE df

\* 3. local_datetime
StepLocalDatetime(df) ==
    IF HasCol(df, "dt") /\ HasCol(df, "timezone")
    THEN SetColumn(df, {"dt", "timezone"}, "local_datetime",
                   LAMBDA r : DatetimePlus(to_datetime(r["dt"]), to_timedelta(r["timezone"])))
    ELSE df

columns_to_drop == {"dt", "timezone", "id", "base", "cod"}

\* 4. drop the bookkeeping columns that exist
StepDrop(df) == DropColumns(df, columns_to_drop \cap ColSet(df))

ToDatetimeIfPresent(df, col) ==
    IF HasCol(df, col) THEN SetColumn(df, {col}, col, LAMBDA r : to_datetime(r[col])) ELSE df

\* 5. for col in ["sunrise", "sunset"]
StepSunTimes(df) == ToDatetimeIfPresent(ToDatetimeIfPresent(df, "sunrise"), "sunset")

temperature_columns == <<"temp", "feels_like", "temp_min", "temp_max">>

RECURSIVE KelvinLoop(_, _)
KelvinLoop(df, i) ==
    IF i > Len(temperature_columns) THEN df
    ELSE LET col == temperature_columns[i]
         IN KelvinLoop(IF HasCol(df, col)
                       THEN SetColumn(df, {col}, col, LAMBDA r : Minus(r[col], KelvinOffset))
                       ELSE df,
                       i + 1)

\* The conversion loop run twice over the frame.
StepCelsius_twice(df) == KelvinLoop(KelvinLoop(df, 1), 1)

\* 6. Kelvin to Celsius, for each temperature column present
StepCelsius(df) == KelvinLoop(df, 1)

\* 7. daylight_duration
StepDaylight(df) ==
    IF HasCol(df, "sunrise") /\ HasCol(df, "sunset")
    THEN SetColumn(df, {"sunrise", "sunset"}, "daylight_duration",
                   LAMBDA r : TotalHours(DatetimeMinus(r["sunset"], r["sunrise"])))
    ELSE df

\* 8. temperature_difference
StepTemperatureDifference(df) ==
    IF HasCol(df, "temp_min") /\ HasCol(df, "temp_max")
    THEN SetColumn(df, {"temp_min", "temp_max"}, "temperature_difference",
                   LAMBDA r : Minus(r["temp_max"], r["temp_min"]))
    ELSE df

\* 9. thermal_comfort_index
StepThermalComfort(df) ==
    IF HasCol(df, "temp") /\ HasCol(df, "humidity") /\ HasCol(df, "speed")
    THEN SetColumn(df, {"temp", "humidity", "speed"}, "thermal_comfort_index",
                   LAMBDA r : ThermalComfort(r["temp"], r["humidity"], r["speed"]))
    ELSE df

SeasonInputs == {"local_datetime", "lat", "temp"}

SeasonColumns(df) ==
    LET d1 == SetColumn(df, {"local_datetime"}, "day_of_year",
                        LAMBDA r : DayOfYearCell(r["local_datetime"]))
        d2 == SetColumn(d1, {"day_of_year", "lat"}, "season",
                        LAMBDA r : <<map_season_code_to_str(
                                        get_season_num(r["day_of_year"], r["lat"]))>>)
        d3 == SetColumn(d2, {"temp"}, "temperature_category",
                        LAMBDA r : <<map_temp_cat_code_to_str(
                                        categorize_temperature_num(r["temp"]))>>)
    IN IF d3.raised # "" THEN d3 ELSE DropColumns(d3, {"day_of_year"})

StepSeason_guard_without_lat(df) ==
    IF HasCol(df, "local_datetime") /\ HasCol(df, "temp") THEN SeasonColumns(df) ELSE df

\* 10. season and temperature_category
StepSeason(df) ==
    IF HasCol(df, "local_datetime") /\ HasCol(df, "lat") /\ HasCol(df, "temp")
    THEN SeasonColumns(df)
    ELSE df

rename_columns ==
    {<<"lon", "longitude">>, <<"lat", "latitude">>, <<"main", "weather_Condition">>,
     <<"description", "weather_description">>, <<"temp", "temperature">>,
     <<"feels_like", "feels_like_temperature">>, <<"temp_min", "min_temperature">>,
     <<"temp_max", "max_temperature">>, <<"sea_level", "sea_level_pressure">>,
     <<"grnd_level", "ground_level_pressure">>, <<"speed", "wind_Speed">>,
     <<"deg", "wind_direction">>, <<"clouds", "cloud_cover">>,
     <<"sunrise", "sunrise_time">>, <<"sunset", "sunset_time">>}

\* 11. rename
StepRename(df) == RenameColumns(df, rename_columns)

column_order ==
    <<"country", "city", "longitude", "latitude", "weather_Condition", "weather_description",
      "temperature", "temperature_category", "feels_like_temperature", "min_temperature",
      "max_temperature", "temperature_difference", "thermal_comfort_index", "pressure",
      "sea_level_pressure", "ground_level_pressure", "humidity", "visibility", "wind_Speed",
      "wind_direction", "cloud_cover", "sunrise_time", "sunset_time", "daylight_duration",
      "local_datetime", "season">>

\* The frame left as the rename step gave it.
StepReorder_as_is(df) == df

\* 12. reorder, keeping the columns that exist
StepReorder(df) ==
    IF df.raised # "" THEN df
    ELSE SelectColumns(df, SeqFilter(column_order,
                           [i \in 1..Len(column_order) |-> HasCol(df, column_order[i])]))

\* Steps 1 and 2 of preprocess_data: what the spec calls the merge.
MergeSteps(df) == StepStatus(StepDuplicates(df))

preprocess_data(df) ==
    StepReorder(StepRename(StepSeason(StepThermalComfort(StepTemperatureDifference(
        StepDaylight(StepCelsius(StepSunTimes(StepDrop(StepLocalDatetime(
            MergeSteps(df)))))))))))

-----------------------------------------------------------------------------
(* data-preprocessing.py : main() *)

prefixes_to_fetch == <<"weather_data_", "user_input_data_">>

\* list_objects_v2 returns at most this many keys per call.
ListPageSize == 1000

\* An object key is <<prefix, stamp>>.
KeysWithPrefix(store, prefix) == {k \in DOMAIN store : k[1] = prefix}

RECURSIVE SortedKeys(_)
\* Keys in listing order (lexicographic: by stamp, the prefix being equal).
SortedKeys(keys) ==
    IF keys = {} THEN <<>>
    ELSE LET first == CHOOSE k \in keys : \A o \in keys : k[2] <= o[2]
         IN <<first>> \o SortedKeys(keys \ {first})

\* list_all_files_in_s3: the keys of "Contents"; an exception is caught and
\* the empty list returned.
list_all_files_in_s3(store, prefix, listOk) ==
    IF ~listOk THEN <<>>
    ELSE LET keys == SortedKeys(KeysWithPrefix(store, prefix))
         IN SubSeq(keys, 1, IF Len(keys) < ListPageSize THEN Len(keys) ELSE ListPageSize)

\* download_file_from_s3: the parsed CSV, or None (here <<>>) when get_object
\* or pd.read_csv raises.
download_file_from_s3(store, key, getOk) ==
    IF getOk /\ key \in DOMAIN store /\ store[key].kind = "csv"
    THEN <<store[key].df>>
    ELSE <<>>

RECURSIVE DownloadLoop(_, _, _, _)
\* "for file_key in all_files", from file i on; getOk[i] tells whether the
\* i-th get_object succeeds.
DownloadLoop(store, files, getOk, i) ==
    IF i > Len(files) THEN <<>>
    ELSE download_file_from_s3(store, files[i], getOk[i])
         \o DownloadLoop(store, files, getOk, i + 1)

output_file_name == <<"global_weather_data.csv", 0>>

\* The exit status of the script once preprocess_data has yielded `df`.
PreprocessExitStatus(df) == IF df.raised # "" THEN "exit 1" ELSE "exit 0"

\* The listing loop of main(): one call per prefix; ok[i] tells whether the
\* i-th list_objects_v2 call succeeds.
ListedFiles(store, ok) ==
    list_all_files_in_s3(store, prefixes_to_fetch[1], ok[1])
    \o list_all_files_in_s3(store, prefixes_to_fetch[2], ok[2])

\* The listing loop and the "if not all_files: return".
PreprocessList ==
    /\ ppc = "start"
    /\ \E ok \in [1..Len(prefixes_to_fetch) -> BOOLEAN] :
         LET files == ListedFiles(rawStore, ok)
         IN /\ all_files' = files
            /\ IF files = <<>>
               THEN ppc' = "done" /\ pexit' = "exit 0"
               ELSE ppc' = "listed" /\ pexit' = pexit
    /\ UNCHANGED <<list_df, merged_df, concat_df>>
    /\ UNCHANGED <<storeVars, recoveryVars, clusterVars, dagVars, kernelVars>>

\* The download loop and the "if not list_df: return".
PreprocessDownload ==
    /\ ppc = "listed"
    /\ \E getOk \in [1..Len(all_files) -> BOOLEAN] :
         LET dfs == DownloadLoop(rawStore, all_files, getOk, 1)
         IN /\ list_df' = dfs
            /\ IF dfs = <<>>
               THEN ppc' = "done" /\ pexit' = "exit 0"
               ELSE ppc' = "downloaded" /\ pexit' = pexit
    /\ UNCHANGED <<all_files, merged_df, concat_df>>
    /\ UNCHANGED <<storeVars, recoveryVars, clusterVars, dagVars, kernelVars>>

\* pd.concat, preprocess_data and the upload to the staging bucket; an
\* exception out of preprocess_data ends the script before the upload.
PreprocessRun ==
    /\ ppc = "downloaded"
    /\ LET cat == concat(list_df)
           out == preprocess_data(cat)
       IN /\ concat_df' = cat
          /\ merged_df' = out
          /\ pexit' = PreprocessExitStatus(out)
          /\ IF out.raised # ""
             THEN stagingStore' = stagingStore
             ELSE \E putOk \in BOOLEAN :
                       stagingStore' = upload_dataframe_to_s3(stagingStore,
                                           output_file_name, out, putOk)
    /\ ppc' = "done"
    /\ UNCHANGED <<all_files, list_df, rawStore, curatedStore>>
    /\ UNCHANGED <<recoveryVars, clusterVars, dagVars, kernelVars>>

PreprocessNext == PreprocessList \/ PreprocessDownload \/ PreprocessRun

PreprocessStart ==
    /\ ppc = "start"
    /\ all_files = <<>>
    /\ list_df = <<>>
    /\ merged_df = <<>>
    /\ concat_df = <<>>
    /\ pexit = "running"
    /\ stagingStore = EmptyMap
    /\ curatedStore = EmptyMap
    /\ RecoveryIdle
    /\ ClusterIdle
    /\ DagIdle
    /\ KernelIdle

CsvObject(df) == [kind |-> "csv", df |-> df]
GarbageObject == [kind |-> "garbage", df |-> DataFrame(<<>>, <<>>)]

\* Raw buckets: any subset of `keys` present, each holding one of `objects`.
Stores(keys, objects) == UNION {[ks -> objects] : ks \in SUBSET keys}

\* ---- inputs for the merge: small batches with and without "cod" ----
MaxRows == 2

MergeCities == {"Paris", "Lima"}
MergeCods == {200, 404}

MergeBatches ==
    {DataFrame(<<"city", "cod">>, rows) :
        rows \in SeqsUpTo({[c \in {"city", "cod"} |-> IF c = "city" THEN <<city>> ELSE <<cod>>] :
                              city \in MergeCities, cod \in MergeCods}, MaxRows)}
    \cup
    {DataFrame(<<"city">>, rows) :
        rows \in SeqsUpTo({[c \in {"city"} |-> <<city>>] : city \in MergeCities}, MaxRows)}

MergeKeys == {<<"weather_data_", 1>>, <<"user_input_data_", 1>>}

MergeInit ==
    /\ rawStore \in Stores(MergeKeys, {CsvObject(b) : b \in MergeBatches} \cup {GarbageObject})
    /\ PreprocessStart

SpecMerge == MergeInit /\ [][PreprocessNext]_vars

\* ---- inputs for the derivations: one snapshot, any subset of columns ----

\* The columns of a raw batch, in the order convert_weather_data_to_dataframe
\* writes them.
SourceColumns ==
    <<"country", "city", "id", "lon", "lat", "base", "main", "description", "temp",
      "feels_like", "temp_min", "temp_max", "pressure", "humidity", "sea_level",
      "grnd_level", "visibility", "speed", "deg", "clouds", "dt", "sunrise", "sunset",
      "timezone", "cod">>

\* The columns some derivation of preprocess_data reads.
DerivationInputs ==
    {"dt", "timezone", "sunrise", "sunset", "temp_min", "temp_max", "temp", "humidity",
     "speed", "lat"}

OtherColumns == Range(SourceColumns) \ DerivationInputs

\* One snapshot (Paris, 10 June 2024, 20.00 C) in the units of the model.
SampleSnapshot ==
    [c \in Range(SourceColumns) |->
        CASE c = "country" -> <<"France">>
          [] c = "city" -> <<"Paris">>
          [] c = "id" -> <<2988507>>
          [] c = "lon" -> <<235>>
          [] c = "lat" -> <<4885>>
          [] c = "base" -> <<"stations">>
          [] c = "main" -> <<"Clouds">>
          [] c = "description" -> <<"couvert">>
          [] c = "temp" -> <<29315>>
          [] c = "feels_like" -> <<29270>>
          [] c = "temp_min" -> <<29115>>
          [] c = "temp_max" -> <<29465>>
          [] c = "pressure" -> <<1015>>
          [] c = "humidity" -> <<60>>
          [] c = "sea_level" -> <<1015>>
          [] c = "grnd_level" -> <<1010>>
          [] c = "visibility" -> <<10000>>
          [] c = "speed" -> <<350>>
          [] c = "deg" -> <<220>>
          [] c = "clouds" -> <<75>>
          [] c = "dt" -> <<1718013600>>
          [] c = "sunrise" -> <<1717991280>>
          [] c = "sunset" -> <<1718049180>>
          [] c = "timezone" -> <<7200>>
          [] c = "cod" -> <<200>>]

\* The batch holding the sample snapshot restricted to the columns `cs`.
SnapshotBatch(cs) ==
    LET cols == SeqFilter(SourceColumns, [i \in 1..Len(SourceColumns) |-> SourceColumns[i] \in cs])
    IN DataFrame(cols, <<[c \in cs |-> SampleSnapshot[c]]>>)

DeriveBatches ==
    {SnapshotBatch(ins \cup others) :
        ins \in SUBSET DerivationInputs, others \in {{}, OtherColumns}} \ {SnapshotBatch({})}

DeriveInit ==
    /\ rawStore \in {[k \in {<<"weather_data_", 1>>} |-> CsvObject(b)] : b \in DeriveBatches}
    /\ PreprocessStart

SpecDerive == DeriveInit /\ [][PreprocessNext]_vars

\* ---- inputs for the temperatures: rows around the category thresholds ----

\* Kelvin temperatures in hundredths: -5, -0.01, 0, 9.99, 10, 24.99, 25 C.
KelvinTemperatures == {26815, 27314, 27315, 28314, 28315, 29814, 29815}

\* The sample snapshot with temp = k and the other temperature columns set
\* off from it, so that no two temperature columns hold the same value.
TemperatureSnapshot(k) ==
    [c \in Range(SourceColumns) |->
        CASE c = "temp" -> <<k>>
          [] c = "feels_like" -> <<k - 45>>
          [] c = "temp_min" -> <<k - 200>>
          [] c = "temp_max" -> <<k + 150>>
          [] OTHER -> SampleSnapshot[c]]

\* Batches of 1..MaxRows such rows, without the temperature columns `absent`.
TemperatureBatches ==
    {LET cs == Range(SourceColumns) \ absent
         cols == SeqFilter(SourceColumns,
                     [i \in 1..Len(SourceColumns) |-> SourceColumns[i] \in cs])
     IN DataFrame(cols, [i \in 1..Len(ks) |-> [c \in cs |-> TemperatureSnapshot(ks[i])[c]]]) :
        ks \in SeqsUpTo(KelvinTemperatures, MaxRows) \ {<<>>},
        absent \in SUBSET Range(temperature_columns)}

TemperatureInit ==
    /\ rawStore \in {[k \in {<<"weather_data_", 1>>} |-> CsvObject(b)] : b \in TemperatureBatches}
    /\ PreprocessStart

SpecTemperature == TemperatureInit /\ [][PreprocessNext]_vars

\* ---- inputs for the row order: batches over two countries ----

SortCountries == <<"France", "Peru">>

\* Batches of up to MaxRows rows with the columns country and city, in any
\* order of the countries.
CountryBatches ==
    {DataFrame(<<"country", "city">>, rows) :
        rows \in SeqsUpTo({[c \in {"country", "city"} |->
                               IF c = "country" THEN <<country>> ELSE <<city>>] :
                             country \in Range(SortCountries), city \in MergeCities},
                         MaxRows)}

CountryInit ==
    /\ rawStore \in Stores(MergeKeys, {CsvObject(b) : b \in CountryBatches})
    /\ PreprocessStart

SpecCountry == CountryInit /\ [][PreprocessNext]_vars

-----------------------------------------------------------------------------
(* data-classification.py *)

source_object == <<"global_weather_data.csv", 0>>
output_object == <<"weather_clusters.csv", 0>>
output_graph_object == <<"weather_clusters.png", 0>>

features_for_clustering ==
    <<"temperature", "feels_like_temperature", "temperature_difference",
      "thermal_comfort_index", "humidity", "wind_Speed", "pressure", "cloud_cover">>

\* n_clusters=4 in main()
n_clusters == 4

\* cluster_name_mapping, indexed by label + 1.
cluster_name_mapping == <<"Cool & Dry", "Warm & Humid", "Hot & Arid", "Extreme Weather">>

\* The lookup in a table that lacks its last entry.
ClusterName_without_last_entry(label) ==
    IF label \in 0..(Len(cluster_name_mapping) - 2)
    THEN cluster_name_mapping[label + 1]
    ELSE "Unknown Cluster"

\* cluster_name_mapping.get(label, "Unknown Cluster")
ClusterName(label) ==
    IF label \in 0..(Len(cluster_name_mapping) - 1)
    THEN cluster_name_mapping[label + 1]
    ELSE "Unknown Cluster"

get_cluster_names(cluster_labels) ==
    [i \in 1..Len(cluster_labels) |-> ClusterName(cluster_labels[i])]

\* df[col] = values, positionally.
SetColumnValues(df, col, values) ==
    [columns |-> IF HasCol(df, col) THEN df.columns ELSE Append(df.columns, col),
     rows |-> [i \in 1..Len(df.rows) |->
                 [c \in ColSet(df) \cup {col} |->
                     IF c = col THEN <<values[i]>> ELSE df.rows[i][c]]],
     raised |-> ""]

\* [col for col in features if col in df.columns]
ExistingFeatures(df, features) ==
    SeqFilter(features, [i \in 1..Len(features) |-> HasCol(df, features[i])])

HasNaN(df, cols) == \E i \in 1..Len(df.rows) : \E c \in Range(cols) : df.rows[i][c] = NaN

\* KMeans(n_clusters).fit raises ValueError on NaN input and when there are
\* fewer samples than clusters.
KMeansRaises(df, features, k) == HasNaN(df, features) \/ Len(df.rows) < k

\* The labelings KMeans(n_clusters=k).fit(...).labels_ may be.
Labelings(df, k) == [1..Len(df.rows) -> 0..(k - 1)]

\* random_state=42, the default of perform_kmeans_clustering and the value
\* main() passes.
random_state == 42

\* A generator seeded from fresh entropy: KMeans(random_state=None).
kmeans_seed_none(seed) == <<>>

\* The random_state perform_kmeans_clustering hands to KMeans(...).
kmeans_seed(seed) == <<seed>>

\* scaled_data: the rows restricted to the retained feature columns.
FitData(df, features) ==
    LET retained == ExistingFeatures(df, features)
    IN [i \in 1..Len(df.rows) |-> [c \in Range(retained) |-> df.rows[i][c]]]

\* The record of one fit.
Fit(df, features, k, seed, labels) ==
    [data |-> FitData(df, features), k |-> k, seed |-> seed, labels |-> labels]

\* kmeans.labels_ after kmeans.fit(scaled_data): some labelling; a generator
\* seeded with the same integer draws the same initial centroids, so a fit
\* of the same data with the same k and seed repeats the labelling of the
\* earlier fit recorded in `log`.
KMeansLabels(df, features, k, seed, log) ==
    LET earlier == {e \in log : /\ kmeans_seed(e.seed) # <<>>
                                /\ e.data = FitData(df, features)
                                /\ e.k = k
                                /\ kmeans_seed(e.seed) = kmeans_seed(seed)}
    IN IF earlier # {} THEN {e.labels : e \in earlier} ELSE Labelings(df, k)

visualize_features_retained(features, retained) == retained

\* The feature list main() passes on to visualize_clusters_to_s3: its own
\* full list, not the list perform_kmeans_clustering retained.
visualize_features(features, retained) == features

\* The labels attached to the frame handed to the scaler, df[existing_features],
\* instead of to df.
perform_kmeans_clustering_on_feature_frame(df, features, k, labels) ==
    LET retained == ExistingFeatures(df, features)
        sub == DataFrame(retained,
                         [i \in 1..Len(df.rows) |-> [c \in Range(retained) |-> df.rows[i][c]]])
    IN IF retained = <<>> THEN df
       ELSE IF KMeansRaises(df, retained, k) THEN Raise(df, "ValueError")
       ELSE SetColumnValues(SetColumnValues(sub, "cluster_label", labels),
                            "cluster_name", get_cluster_names(labels))

\* perform_kmeans_clustering(df, features, n_clusters, random_state); `labels`
\* stands for kmeans.labels_.
perform_kmeans_clustering(df, features, k, labels) ==
    LET retained == ExistingFeatures(df, features)
    IN IF retained = <<>> THEN df
       ELSE IF KMeansRaises(df, retained, k) THEN Raise(df, "ValueError")
       ELSE SetColumnValues(SetColumnValues(df, "cluster_label", labels),
                            "cluster_name", get_cluster_names(labels))

\* df[features].fillna(df[features].mean()) still holds a NaN where a whole
\* column is NaN.
AllNaNColumn(df, features) ==
    \E c \in Range(features) : \A i \in 1..Len(df.rows) : df.rows[i][c] = NaN

\* The part of visualize_clusters_to_s3 before the upload: the DataFrame with
\* PCA1 and PCA2, or the exception raised (KeyError for a feature column that
\* is absent; ValueError from PCA(n_components=2) on fewer than 2 samples or
\* features or on NaN; ValueError from the plot without cluster_name).
visualize_clusters(df, features) ==
    IF ~(Range(features) \subseteq ColSet(df)) THEN Raise(df, "KeyError")
    ELSE IF Len(df.rows) < 2 \/ Len(features) < 2 \/ AllNaNColumn(df, features)
         THEN Raise(df, "ValueError")
    ELSE LET d1 == SetColumnValues(df, "PCA1", [i \in 1..Len(df.rows) |-> [pc |-> 1, row |-> i]])
             d2 == SetColumnValues(d1, "PCA2", [i \in 1..Len(df.rows) |-> [pc |-> 2, row |-> i]])
         IN IF HasCol(df, "cluster_name") THEN d2 ELSE Raise(d2, "ValueError")

\* The scatter plot saved to the buffer.
Figure(df) ==
    [kind |-> "png",
     points |-> [i \in 1..Len(df.rows) |->
                   [x |-> df.rows[i]["PCA1"], y |-> df.rows[i]["PCA2"],
                    hue |-> df.rows[i]["cluster_name"]]]]

\* The exit status of a script whose last computation is `df`: an uncaught
\* exception ends the interpreter with status 1, a return from main() with 0.
ExitStatus(df) == IF df.raised # "" THEN "exit 1" ELSE "exit 0"

\* 1) download_file_from_s3 and "if df_weather is None or df_weather.empty".
ClusterDownload ==
    /\ cpc = "start"
    /\ \E getOk \in BOOLEAN :
         LET got == download_file_from_s3(stagingStore, source_object, getOk)
         IN IF got = <<>> \/ got[1].rows = <<>>
            THEN /\ cpc' = "done"
                 /\ cexit' = "exit 0"
                 /\ df_weather' = df_weather
            ELSE /\ cpc' = "downloaded"
                 /\ cexit' = cexit
                 /\ df_weather' = got[1]
    /\ UNCHANGED <<df_with_clusters, fitLog, crun, storeVars, recoveryVars, preprocessVars,
                   dagVars, kernelVars>>

\* 3) perform_kmeans_clustering; an exception out of it ends the script.
ClusterFit ==
    /\ cpc = "downloaded"
    /\ \E labels \in KMeansLabels(df_weather, features_for_clustering, n_clusters,
                                   random_state, fitLog) :
         LET out == perform_kmeans_clustering(df_weather, features_for_clustering,
                                              n_clusters, labels)
         IN /\ df_with_clusters' = out
            /\ fitLog' = IF HasCol(out, "cluster_label") /\ out.raised = ""
                         THEN fitLog \cup {Fit(df_weather, features_for_clustering,
                                               n_clusters, random_state, labels)}
                         ELSE fitLog
            /\ IF out.raised # ""
               THEN cpc' = "done" /\ cexit' = ExitStatus(out)
               ELSE cpc' = "clustered" /\ cexit' = cexit
    /\ UNCHANGED <<df_weather, crun, storeVars, recoveryVars, preprocessVars, dagVars,
                   kernelVars>>

\* 4) upload_dataframe_to_s3 of the clustered DataFrame.
ClusterUploadCsv ==
    /\ cpc = "clustered"
    /\ \E putOk \in BOOLEAN :
         curatedStore' = upload_dataframe_to_s3(curatedStore, output_object,
                                                df_with_clusters, putOk)
    /\ cpc' = "uploaded"
    /\ UNCHANGED <<df_weather, df_with_clusters, cexit, fitLog, crun, rawStore, stagingStore,
                   recoveryVars, preprocessVars, dagVars, kernelVars>>

\* 5) visualize_clusters_to_s3: the projection, the plot and upload_file_to_s3.
ClusterVisualize ==
    /\ cpc = "uploaded"
    /\ LET features == visualize_features(features_for_clustering,
                           ExistingFeatures(df_with_clusters, features_for_clustering))
           out == visualize_clusters(df_with_clusters, features)
       IN /\ df_with_clusters' = out
          /\ cexit' = ExitStatus(out)
          /\ IF out.raised # ""
             THEN curatedStore' = curatedStore
             ELSE \E putOk \in BOOLEAN :
                       curatedStore' = upload_dataframe_to_s3(curatedStore,
                                           output_graph_object, Figure(out), putOk)
    /\ cpc' = "done"
    /\ UNCHANGED <<df_weather, fitLog, crun, rawStore, stagingStore, recoveryVars,
                   preprocessVars, dagVars, kernelVars>>

ClusterNext == ClusterDownload \/ ClusterFit \/ ClusterUploadCsv \/ ClusterVisualize

\* ---- inputs: staging datasets of up to MaxClusterRows rows ----
MaxClusterRows == 4

\* A staging dataset of n rows over the columns city + fs; the cell of row i
\* is <<i>>, but for the cell at nanAt = <<row, column>>, which is NaN.
StagingFrame(fs, n, nanAt) ==
    LET cols == <<"city">> \o SeqFilter(features_for_clustering,
                    [i \in 1..Len(features_for_clustering) |-> features_for_clustering[i] \in fs])
    IN DataFrame(cols,
                 [i \in 1..n |->
                    [c \in Range(cols) |->
                        IF c = "city" THEN <<ToString(i)>>
                        ELSE IF nanAt = <<i, c>> THEN NaN
                        ELSE <<i>>]])

\* The feature columns a staging dataset may hold: any of the first three
\* declared features, with or without all the others.
FeatureSubsets ==
    {a \cup b : a \in SUBSET {features_for_clustering[i] : i \in 1..3},
                b \in {{}, {features_for_clustering[i] : i \in 4..Len(features_for_clustering)}}}

StagingFrames ==
    {StagingFrame(fs, n, nanAt) :
        fs \in FeatureSubsets,
        n \in 0..MaxClusterRows,
        nanAt \in {<<0, "">>} \cup {<<1, c>> : c \in Range(features_for_clustering)}}

ClusterInit ==
    /\ stagingStore \in Stores({source_object}, {CsvObject(f) : f \in StagingFrames})
    /\ rawStore = EmptyMap
    /\ curatedStore = EmptyMap
    /\ cpc = "start"
    /\ df_weather = DataFrame(<<>>, <<>>)
    /\ df_with_clusters = DataFrame(<<>>, <<>>)
    /\ cexit = "running"
    /\ fitLog = {}
    /\ crun = 1
    /\ RecoveryIdle
    /\ PreprocessIdle
    /\ DagIdle
    /\ KernelIdle

SpecCluster == ClusterInit /\ [][ClusterNext]_vars

\* ---- the script run again on the same staging dataset ----
MaxRuns == 2

\* The next run of the script starts from scratch; the buckets stay.
ClusterRerun ==
    /\ cpc = "done"
    /\ crun < MaxRuns
    /\ crun' = crun + 1
    /\ cpc' = "start"
    /\ cexit' = "running"
    /\ df_weather' = DataFrame(<<>>, <<>>)
    /\ df_with_clusters' = DataFrame(<<>>, <<>>)
    /\ UNCHANGED <<fitLog, storeVars, recoveryVars, preprocessVars, dagVars, kernelVars>>

RerunStagingStores ==
    Stores({source_object},
           {CsvObject(StagingFrame(fs, n_clusters, <<0, "">>)) :
               fs \in {{}, {features_for_clustering[1], features_for_clustering[2]},
                       Range(features_for_clustering)}})

RerunInit ==
    /\ stagingStore \in RerunStagingStores
    /\ rawStore = EmptyMap
    /\ curatedStore = EmptyMap
    /\ cpc = "start"
    /\ df_weather = DataFrame(<<>>, <<>>)
    /\ df_with_clusters = DataFrame(<<>>, <<>>)
    /\ cexit = "running"
    /\ fitLog = {}
    /\ crun = 1
    /\ RecoveryIdle
    /\ PreprocessIdle
    /\ DagIdle
    /\ KernelIdle

RerunNext == ClusterNext \/ ClusterRerun

SpecRerun == RerunInit /\ [][RerunNext]_vars

\* ---- get_cluster_names on label lists beyond those KMeans(4) yields ----

\* The largest label handed to get_cluster_names.
MaxLabel == 5

\* A frame of n rows that already holds df["cluster_label"] = cluster_labels.
LabelledFrame(cluster_labels) ==
    SetColumnValues(StagingFrame({}, Len(cluster_labels), <<0, "">>),
                    "cluster_label", cluster_labels)

LabelledFrames ==
    {LabelledFrame(ls) : ls \in SeqsUpTo(-1..MaxLabel, MaxClusterRows) \ {<<>>}}

NamingInit ==
    /\ stagingStore = EmptyMap
    /\ rawStore = EmptyMap
    /\ curatedStore = EmptyMap
    /\ cpc = "labelled"
    /\ df_weather \in LabelledFrames
    /\ df_with_clusters = DataFrame(<<>>, <<>>)
    /\ cexit = "running"
    /\ fitLog = {}
    /\ crun = 1
    /\ RecoveryIdle
    /\ PreprocessIdle
    /\ DagIdle
    /\ KernelIdle

\* df["cluster_name"] = get_cluster_names(cluster_labels)
NameClusters ==
    /\ cpc = "labelled"
    /\ df_with_clusters' =
         SetColumnValues(df_weather, "cluster_name",
             get_cluster_names([i \in 1..Len(df_weather.rows) |->
                                   df_weather.rows[i]["cluster_label"][1]]))
    /\ cpc' = "named"
    /\ UNCHANGED <<df_weather, cexit, fitLog, crun, storeVars, recoveryVars, preprocessVars,
                   dagVars, kernelVars>>

\* main() on staging datasets, next to get_cluster_names on any label list.
NamesInit == ClusterInit \/ NamingInit

NamesNext == ClusterNext \/ NameClusters

SpecNames == NamesInit /\ [][NamesNext]_vars

-----------------------------------------------------------------------------
(* dags/openweather_data_lake.py *)

\* task_initialize_buckets >> task_data_to_raw >> task_raw_to_staging
\*     >> task_staging_to_curated
Tasks == <<"initialize_buckets", "data_to_raw", "raw_to_staging", "staging_to_curated">>

TaskIds == Range(Tasks)

TaskIndex(t) == CHOOSE i \in 1..Len(Tasks) : Tasks[i] = t

\* Four tasks declared without the chain of ">>": no task has an upstream task.
Upstream_unchained(t) == {}

\* The tasks directly upstream and downstream of t in the chain.
Upstream(t) == {Tasks[i] : i \in {TaskIndex(t) - 1} \cap (1..Len(Tasks))}
Downstream(t) == {Tasks[i] : i \in {TaskIndex(t) + 1} \cap (1..Len(Tasks))}

\* default_args["retries"]
retries == 2

NoRun == [fatal |-> "", exit |-> ""]

\* One run of data-recovery.py against a directory response: what main()
\* met and the status the interpreter exits with.  Both the "if not
\* capitals: return" and the end of main() are normal returns.
data_recovery_run(resp) ==
    LET caps == fetch_capitals_from_api(resp)
    IN [fatal |-> IF caps = <<>> THEN "empty capital list" ELSE "",
        exit |-> "exit 0"]

\* One run of data-preprocessing.py against a raw bucket.
data_preprocessing_run(store, listOk, getOk) ==
    LET files == ListedFiles(store, listOk)
        dfs == DownloadLoop(store, files, getOk, 1)
    IN IF files = <<>>
       THEN [fatal |-> "no raw batch listed", exit |-> "exit 0"]
       ELSE IF dfs = <<>>
       THEN [fatal |-> "no raw batch parses", exit |-> "exit 0"]
       ELSE [fatal |-> "", exit |-> PreprocessExitStatus(preprocess_data(concat(dfs)))]

\* One run of data-classification.py against a staging bucket.  The exit
\* status does not depend on the labels KMeans assigns.
data_classification_run(store, getOk) ==
    LET got == download_file_from_s3(store, source_object, getOk)
    IN IF got = <<>> \/ got[1].rows = <<>>
       THEN [fatal |-> "", exit |-> "exit 0"]
       ELSE LET df == got[1]
                fit == perform_kmeans_clustering(df, features_for_clustering, n_clusters,
                                                 [i \in 1..Len(df.rows) |-> 0])
                plot == visualize_clusters(fit,
                            visualize_features(features_for_clustering,
                                ExistingFeatures(fit, features_for_clustering)))
            IN [fatal |-> IF ExistingFeatures(df, features_for_clustering) = <<>>
                          THEN "no usable feature column" ELSE "",
                exit |-> IF fit.raised # "" THEN ExitStatus(fit) ELSE ExitStatus(plot)]

\* subprocess.run(["python", script_path], check=True) raises
\* CalledProcessError exactly when the script's exit status is not 0.
CalledProcessError(run) == run.exit # "exit 0"

\* The state the scheduler gives task t when its running attempt ends:
\* a raising callable is retried while attempts remain.
AttemptEnds(t, raised) ==
    IF ~raised THEN "success"
    ELSE IF tries[t] <= retries THEN "up_for_retry"
    ELSE "failed"

\* The scheduler starts an attempt of a task: the task is scheduled or up
\* for retry and every upstream task has succeeded.
TaskStarts ==
    /\ \E t \in TaskIds :
         /\ taskState[t] \in {"none", "up_for_retry"}
         /\ \A u \in Upstream(t) : taskState[u] = "success"
         /\ taskState' = [taskState EXCEPT ![t] = "running"]
         /\ tries' = [tries EXCEPT ![t] = @ + 1]
    /\ UNCHANGED <<lastRun, storeVars, recoveryVars, preprocessVars, clusterVars, kernelVars>>

\* ---- what the buckets may hold when a script of the DAG runs ----
DagRawStores ==
    Stores(MergeKeys, {CsvObject(SnapshotBatch(Range(SourceColumns))), GarbageObject})

DagFeatureSets ==
    {{}, {features_for_clustering[1], features_for_clustering[2]},
     Range(features_for_clustering)}

DagStagingStores ==
    Stores({source_object},
           {CsvObject(StagingFrame(fs, n_clusters, <<0, "">>)) : fs \in DagFeatureSets})

\* ensure_buckets_exist: list_buckets or create_bucket may raise.
RunEnsureBuckets ==
    /\ taskState["initialize_buckets"] = "running"
    /\ \E raised \in BOOLEAN :
         taskState' = [taskState EXCEPT
                          !["initialize_buckets"] = AttemptEnds("initialize_buckets", raised)]
    /\ lastRun' = [lastRun EXCEPT !["initialize_buckets"] = NoRun]
    /\ UNCHANGED <<tries, storeVars, recoveryVars, preprocessVars, clusterVars, kernelVars>>

\* run_data_recovery
RunDataRecovery ==
    /\ taskState["data_to_raw"] = "running"
    /\ \E resp \in DirResponses :
         LET run == data_recovery_run(resp)
         IN /\ lastRun' = [lastRun EXCEPT !["data_to_raw"] = run]
            /\ taskState' = [taskState EXCEPT
                 !["data_to_raw"] = AttemptEnds("data_to_raw", CalledProcessError(run))]
    /\ UNCHANGED <<tries, storeVars, recoveryVars, preprocessVars, clusterVars, kernelVars>>

\* run_data_preprocessing
RunDataPreprocessing ==
    /\ taskState["raw_to_staging"] = "running"
    /\ \E store \in DagRawStores, listOk \in [1..Len(prefixes_to_fetch) -> BOOLEAN],
          getOk \in [1..Cardinality(MergeKeys) -> BOOLEAN] :
         LET run == data_preprocessing_run(store, listOk, getOk)
         IN /\ lastRun' = [lastRun EXCEPT !["raw_to_staging"] = run]
            /\ taskState' = [taskState EXCEPT
                 !["raw_to_staging"] = AttemptEnds("raw_to_staging", CalledProcessError(run))]
    /\ UNCHANGED <<tries, storeVars, recoveryVars, preprocessVars, clusterVars, kernelVars>>

\* run_data_classification
RunDataClassification ==
    /\ taskState["staging_to_curated"] = "running"
    /\ \E store \in DagStagingStores, getOk \in BOOLEAN :
         LET run == data_classification_run(store, getOk)
         IN /\ lastRun' = [lastRun EXCEPT !["staging_to_curated"] = run]
            /\ taskState' = [taskState EXCEPT
                 !["staging_to_curated"] =
                     AttemptEnds("staging_to_curated", CalledProcessError(run))]
    /\ UNCHANGED <<tries, storeVars, recoveryVars, preprocessVars, clusterVars, kernelVars>>

\* A task whose upstream task failed for good is never run.
UpstreamFailed ==
    /\ \E t \in TaskIds :
         /\ taskState[t] = "none"
         /\ \E u \in Upstream(t) : taskState[u] \in {"failed", "upstream_failed"}
         /\ taskState' = [taskState EXCEPT ![t] = "upstream_failed"]
    /\ UNCHANGED <<tries, lastRun, storeVars, recoveryVars, preprocessVars, clusterVars, kernelVars>>

DagNext ==
    \/ TaskStarts
    \/ RunEnsureBuckets
    \/ RunDataRecovery
    \/ RunDataPreprocessing
    \/ RunDataClassification
    \/ UpstreamFailed

DagInit ==
    /\ taskState = [t \in TaskIds |-> "none"]
    /\ tries = [t \in TaskIds |-> 0]
    /\ lastRun = [t \in TaskIds |-> NoRun]
    /\ rawStore = EmptyMap
    /\ stagingStore = EmptyMap
    /\ curatedStore = EmptyMap
    /\ RecoveryIdle
    /\ PreprocessIdle
    /\ ClusterIdle
    /\ KernelIdle

SpecDag == DagInit /\ [][DagNext]_vars

-----------------------------------------------------------------------------
(* Claims about data-recovery.py *)

FetchRan == rpc = "done" /\ capitals # <<>>

\* C1: after a fetch run over N+M capital entries (N successful and M failed
\* requests) the result map has exactly N+M keys.
C1_ResultMapHasOneKeyPerRequest ==
    FetchRan => Cardinality(DOMAIN weather_data) = Len(capitals)

\* C2: a failed request never fails a sibling: every request whose response
\* was a 200 is in the result map as a success.
C2_SuccessKeptDespiteSiblingFailure ==
    FetchRan =>
        \A i \in 1..Len(capitals) :
            IsSuccess(results[i]) =>
                /\ capitals[i].city \in DOMAIN weather_data
                /\ IsSuccess(weather_data[capitals[i].city])

\* A directory entry of the expected shape that names a capital.
WellFormedWithCapital(e) ==
    /\ e.name.kind = "dict"
    /\ e.capital.kind = "list"
    /\ Len(e.capital.items) > 0

\* C10: on a 200 response of the directory service, every well-formed entry
\* that has a capital is returned, whatever the shape of the other entries.
C10_MalformedEntrySkippedNotFatal ==
    (rpc # "start" /\ dirResponse.status = 200) =>
        \A i \in 1..Len(dirResponse.countries) :
            LET e == dirResponse.countries[i] IN
            WellFormedWithCapital(e) =>
                \E j \in 1..Len(capitals) :
                    /\ capitals[j].country = e.name.common
                    /\ capitals[j].city = normalize_capital_name(e.capital.items[1])

\* The directory has answered and fetch_capitals_from_api has returned.
DirectoryAnswered == rpc # "start"

\* The entries of the response whose capital list is present and non-empty.
EntriesWithCapital ==
    {i \in 1..Len(dirResponse.countries) :
        Len(dirResponse.countries[i].capital.items) > 0}

\* C11: every entry fetch_capitals_from_api returns has a city other than
\* "No Capital" that is not a key of the alias table, and a country whose
\* capital list is empty or missing yields no entry.
C11_ReturnedCitiesAreNormalised ==
    DirectoryAnswered =>
        /\ \A i \in 1..Len(capitals) :
               /\ capitals[i].city # NoCapital
               /\ capitals[i].city \notin AliasKeys
        /\ Len(capitals) <= Cardinality(EntriesWithCapital)

\* Witness of C11: a response with an alias-keyed capital and a country
\* without capital returned the normalised city alone.
C11_Witness ==
    /\ DirectoryAnswered
    /\ Len(dirResponse.countries) = 2
    /\ Cardinality(EntriesWithCapital) = 1
    /\ \E i \in EntriesWithCapital :
         dirResponse.countries[i].capital.items[1] = "St. Peter Port"
    /\ Len(capitals) = 1
    /\ capitals[1].city = "Saint-Pierre-Port"

\* The runs that got as far as upload_dataframe_to_s3.
UploadingRuns == {i \in 1..Len(runLog) : runLog[i].reached}

\* C18: every run that reached the upload added one object to the raw store
\* under its timestamp key, and no later run overwrote or removed it: the raw
\* store holds one object per such run, each as its run wrote it.
C18_RawBatchesAppendOnly ==
    /\ Cardinality(DOMAIN rawStore) = Cardinality(UploadingRuns)
    /\ \A i \in UploadingRuns :
         /\ runLog[i].key \in DOMAIN rawStore
         /\ rawStore[runLog[i].key] = runLog[i].df

\* A result that records a transient failure: a 5xx status or a timeout.
IsTransientFailure(result) ==
    result.kind = "error" /\ result.detail \in {"Status 500", "str(e)"}

\* C19: a request recorded as failed on a transient error (5xx, timeout) was
\* retried before being given up: more than one GET was made for it; and the
\* batch was not aborted.
C19_TransientFailureIsRetried ==
    FetchRan =>
        /\ rexit = "exit 0"
        /\ \A i \in 1..Len(results) :
             IsTransientFailure(results[i]) => getCalls[i] > 1

\* The records the error log should hold: one per failed request, in order.
FailedRequestRecords ==
    SeqFilter([i \in 1..Len(capitals) |->
                  [city |-> capitals[i].city, country |-> capitals[i].country,
                   error |-> results[i]]],
              [i \in 1..Len(capitals) |-> results[i].kind = "error"])

\* C20: a fetch run writes its error log once, after all the requests have
\* completed: no log exists while requests are pending, and the finished run
\* has left one log file holding exactly one {city, country, error} record
\* per failed request (the empty array when none failed).
C20_ErrorLogHoldsEveryFailure ==
    /\ rpc \in {"start", "gather"} => logFiles = EmptyMap
    /\ FetchRan =>
         /\ DOMAIN logFiles = {LogFilePath(clock)}
         /\ logFiles[LogFilePath(clock)] = FailedRequestRecords
         /\ error_log = FailedRequestRecords

\* Witness of C20: of two requests one failed and one succeeded, and the log
\* holds the record of the failed one alone.
C20_Witness ==
    /\ FetchRan
    /\ Len(capitals) = 2
    /\ IsSuccess(results[1])
    /\ results[2].kind = "error"
    /\ Len(logFiles[LogFilePath(clock)]) = 1
    /\ logFiles[LogFilePath(clock)][1].city = capitals[2].city

\* Some request of the batch has not completed yet.
RequestInFlight == \E i \in 1..Len(results) : results[i].kind = "pending"

\* While requests are in flight the result map and the error log are as
\* created; afterwards every map entry stems from a request for its own city
\* and every result slot holds the result of its own request.
OwnResultsOnly ==
    /\ RequestInFlight => (weather_data = EmptyMap /\ error_log = <<>>)
    /\ \A i \in 1..Len(results) : results[i].kind # "pending" => results[i].req = i
    /\ \A city \in DOMAIN weather_data :
         \E i \in 1..Len(capitals) :
            /\ capitals[i].city = city
            /\ weather_data[city] = IF IsSuccess(results[i]) THEN results[i] ELSE ErrorSentinel

\* A step that changes the result map or the error log is taken when no
\* request is in flight, and a step that completes a request changes the slot
\* of that request alone.
WritesOnlyInFanIn ==
    /\ (weather_data' # weather_data \/ error_log' # error_log) => ~RequestInFlight
    /\ results' # results /\ results # <<>> =>
         /\ Len(results') = Len(results)
         /\ Cardinality({i \in 1..Len(results) : results'[i] # results[i]}) = 1
         /\ \A i \in 1..Len(results) : results'[i] # results[i] => results[i].kind = "pending"
         /\ weather_data' = weather_data
         /\ error_log' = error_log

\* C23: no request task writes to the result map or the error log; they are
\* written in the fan-in loop only, once every request of the batch has
\* completed, each entry from the result of its own request, and a completing
\* task touches no other task's result.
C23_NoTaskWritesSharedState == []OwnResultsOnly /\ [][WritesOnlyInFanIn]_vars

\* Witness of C23: one request has completed while another is in flight, and
\* the result map and the error log are still empty.
C23_Witness ==
    /\ rpc = "gather"
    /\ Len(results) = 2
    /\ results[1].kind = "pending"
    /\ results[2].kind = "error"
    /\ weather_data = EmptyMap
    /\ error_log = <<>>

\* The rows the raw batch should hold: one per capital entry whose own
\* request succeeded, with the snapshot of that request, in list order.
RowsOfSuccessfulFetches ==
    SeqFilter([i \in 1..Len(capitals) |->
                  [country |-> capitals[i].country, city |-> capitals[i].city,
                   snapshot |-> results[i].req]],
              [i \in 1..Len(capitals) |-> IsSuccess(results[i])])

\* C24: the raw batch has exactly one row per capital entry whose own fetch
\* succeeded, with that entry's country and city and that fetch's snapshot,
\* in the order of the capital list, and no row for a failed fetch.
C24_OneRowPerSuccessfulFetch ==
    FetchRan =>
        convert_weather_data_to_dataframe(weather_data, capitals) = RowsOfSuccessfulFetches

-----------------------------------------------------------------------------
(* Claims about data-preprocessing.py *)

\* main() got as far as preprocess_data.
MergeRan == ppc = "done" /\ list_df # <<>>

\* The rows of the downloaded batches, as <<batch, row>> positions.
BatchRows == UNION {{<<b, i>> : i \in 1..Len(list_df[b].rows)} : b \in 1..Len(list_df)}

RawRow(p) == list_df[p[1]].rows[p[2]]

\* A batch row widened to the columns of the merged dataset.
Widened(p) == PadRow(RawRow(p), concat_df.columns)

\* C3: the merge (concat, then steps 1-2 of preprocess_data) yields exactly
\* the deduplicated, 200-only union of the input rows: no two output rows are
\* field-wise identical, every output row has cod = 200 when the column
\* exists, every input row with cod = 200 is in the output, every output row
\* is an input row, and the later steps keep the row count.
C3_MergeIsDedupedSuccessUnion ==
    MergeRan =>
        LET out == MergeSteps(concat_df) IN
        /\ out.raised = ""
        /\ \A i, j \in 1..Len(out.rows) : i # j => out.rows[i] # out.rows[j]
        /\ HasCol(concat_df, "cod") =>
               \A i \in 1..Len(out.rows) : out.rows[i]["cod"] = <<200>>
        /\ \A p \in BatchRows :
               ("cod" \in DOMAIN RawRow(p) /\ RawRow(p)["cod"] = <<200>>)
                   => Widened(p) \in Range(out.rows)
        /\ \A r \in Range(out.rows) : \E p \in BatchRows : Widened(p) = r
        /\ Len(merged_df.rows) = Len(out.rows)

\* Witness of C3: two batches were merged, a duplicate and a non-200 row were
\* dropped and a 200 row was kept.
C3_Witness ==
    /\ MergeRan
    /\ Len(list_df) = 2
    /\ HasCol(concat_df, "cod")
    /\ \E p, q \in BatchRows : p # q /\ Widened(p) = Widened(q)
                                /\ Widened(p)["cod"] = <<200>>
    /\ \E p \in BatchRows : Widened(p)["cod"] = <<404>>
    /\ Len(merged_df.rows) >= 1

\* C4: the status filter never removes a row whose status-code field is
\* absent, be it in a dataset without a cod column or in a batch without one
\* merged with a batch that has one.
C4_AbsentStatusNeverFiltered ==
    MergeRan =>
        \A p \in BatchRows :
            "cod" \notin DOMAIN RawRow(p)
                => Widened(p) \in Range(MergeSteps(concat_df).rows)

\* The derived columns and the source columns each of them needs.
Derivations ==
    {<<"local_datetime", {"dt", "timezone"}>>,
     <<"daylight_duration", {"sunrise", "sunset"}>>,
     <<"temperature_difference", {"temp_min", "temp_max"}>>,
     <<"thermal_comfort_index", {"temp", "humidity", "speed"}>>,
     <<"season", {"dt", "timezone", "lat", "temp"}>>,
     <<"temperature_category", {"dt", "timezone", "lat", "temp"}>>}

\* C5: preprocess_data completes without error whatever subset of the source
\* columns its input has, and a derived column is in the output exactly when
\* all the source columns it needs are in the input.
C5_MissingColumnsSkipOnlyTheirDerivation ==
    MergeRan =>
        /\ merged_df.raised = ""
        /\ pexit = "exit 0"
        /\ \A d \in Derivations :
               HasCol(merged_df, d[1]) <=> (d[2] \subseteq ColSet(concat_df))

\* Witness of C5: without lat (and without sunset) the season, the category
\* and the daylight duration are skipped while local_datetime and the thermal
\* comfort index are still produced.
C5_Witness ==
    /\ MergeRan
    /\ {"dt", "timezone", "temp", "humidity", "speed", "sunrise"} \subseteq ColSet(concat_df)
    /\ ~HasCol(concat_df, "lat")
    /\ ~HasCol(concat_df, "sunset")
    /\ HasCol(merged_df, "local_datetime")
    /\ HasCol(merged_df, "thermal_comfort_index")
    /\ ~HasCol(merged_df, "season")
    /\ ~HasCol(merged_df, "daylight_duration")

\* The position of a column in the canonical sequence.
CanonicalIndex(c) == CHOOSE i \in 1..Len(column_order) : column_order[i] = c

\* The columns that exist after the rename step: the source columns that
\* were not dropped, under their new names, and the derived columns whose
\* inputs were present.
ColumnsAfterRename ==
    {NewName(rename_columns, c) : c \in ColSet(concat_df) \ columns_to_drop}
    \cup {d[1] : d \in {e \in Derivations : e[2] \subseteq ColSet(concat_df)}}

\* C21: the columns of the output of preprocess_data are the columns of the
\* canonical sequence that exist after renaming, in canonical order; no
\* dropped column and no unrenamed source name is among them.
C21_OutputColumnsAreCanonical ==
    MergeRan =>
        LET out == merged_df.columns IN
        /\ Range(out) \subseteq Range(column_order)
        /\ \A i, j \in 1..Len(out) : i < j => CanonicalIndex(out[i]) < CanonicalIndex(out[j])
        /\ Range(out) = ColumnsAfterRename \cap Range(column_order)
        /\ Range(out) \cap (columns_to_drop \cup {p[1] : p \in rename_columns}) = {}

\* Witness of C21: an input with every source column came out with the 26
\* canonical columns, temperature_category right after temperature.
C21_Witness ==
    /\ MergeRan
    /\ ColSet(concat_df) = Range(SourceColumns)
    /\ merged_df.columns = column_order
    /\ ~HasCol(merged_df, "cod")

\* The rank of a country in ascending (alphabetical) order.
CountryRank(cell) == CHOOSE i \in 1..Len(SortCountries) : SortCountries[i] = cell[1]

\* C22: the rows of the dataset preprocess_data returns are sorted by country
\* in ascending order.
C22_RowsSortedByCountry ==
    (MergeRan /\ HasCol(merged_df, "country")) =>
        \A i, j \in 1..Len(merged_df.rows) :
            i < j => CountryRank(merged_df.rows[i]["country"])
                        <= CountryRank(merged_df.rows[j]["country"])

\* The rows preprocess_data works on after its steps 1-2, still in Kelvin.
KelvinRows == MergeSteps(concat_df).rows

\* The category the thresholds give a Celsius temperature in hundredths.
CategoryOf(celsius) ==
    IF celsius < 0 THEN "Very Cold"
    ELSE IF celsius < 1000 THEN "Cold"
    ELSE IF celsius < 2500 THEN "Moderate"
    ELSE "Hot"

\* C13: for every row with a temperature, temperature_category is the one the
\* thresholds 0, 10 and 25 give the row's Celsius temperature (the temp column
\* after the Kelvin step), not its Kelvin value.
C13_CategoryFromCelsiusThresholds ==
    (MergeRan /\ HasCol(merged_df, "temperature_category")) =>
        /\ Len(merged_df.rows) = Len(KelvinRows)
        /\ \A i \in 1..Len(merged_df.rows) :
             LET row == merged_df.rows[i] IN
             row["temperature"] # NaN =>
                /\ row["temperature_category"] = <<CategoryOf(row["temperature"][1])>>
                /\ row["temperature_category"] = <<CategoryOf(KelvinRows[i]["temp"][1] - 27315)>>

\* Witness of C13: a row at exactly 0 C came out Cold and a row at 24.99 C
\* Moderate.
C13_Witness ==
    /\ MergeRan
    /\ HasCol(merged_df, "temperature_category")
    /\ Len(merged_df.rows) = 2
    /\ merged_df.rows[1]["temperature"] = <<0>>
    /\ merged_df.rows[1]["temperature_category"] = <<"Cold">>
    /\ merged_df.rows[2]["temperature"] = <<2499>>
    /\ merged_df.rows[2]["temperature_category"] = <<"Moderate">>

\* C14: for every row and every temperature column present, the value in the
\* output of preprocess_data is the input Kelvin value minus 273.15 (in
\* hundredths), the subtraction being applied once.
C14_CelsiusIsKelvinMinusOffset ==
    MergeRan =>
        /\ merged_df.raised = ""
        /\ Len(merged_df.rows) = Len(KelvinRows)
        /\ \A i \in 1..Len(merged_df.rows) :
             \A c \in Range(temperature_columns) :
                /\ HasCol(merged_df, NewName(rename_columns, c)) <=> HasCol(concat_df, c)
                /\ HasCol(concat_df, c) =>
                     merged_df.rows[i][NewName(rename_columns, c)]
                         = <<KelvinRows[i][c][1] - 27315>>

\* Witness of C14: a row with all four temperature columns was converted.
C14_Witness ==
    /\ MergeRan
    /\ Range(temperature_columns) \subseteq ColSet(concat_df)
    /\ Len(merged_df.rows) >= 1
    /\ concat_df.rows[1]["temp"] = <<28315>>
    /\ merged_df.rows[1]["temperature"] = <<1000>>
    /\ merged_df.rows[1]["min_temperature"] = <<800>>

\* The batches a run gets when every list and get call succeeds: all the
\* readable raw objects under a known prefix, in listing order.
AllRawBatches ==
    LET files == ListedFiles(rawStore, [i \in 1..Len(prefixes_to_fetch) |-> TRUE])
    IN DownloadLoop(rawStore, files, [i \in 1..Len(files) |-> TRUE], 1)

\* C17: a run that writes the staging dataset has consumed every raw object
\* under a known prefix, and the dataset written is the one derived from the
\* raw store content alone.
C17_StagingDerivedFromAllRawObjects ==
    (ppc = "done" /\ output_file_name \in DOMAIN stagingStore) =>
        /\ list_df = AllRawBatches
        /\ stagingStore[output_file_name] = preprocess_data(concat(AllRawBatches))

-----------------------------------------------------------------------------
(* Claims about data-classification.py (SpecCluster) *)

\* The staging dataset was downloaded and found non-empty.
Downloaded == df_weather.rows # <<>>

NoFeatureColumn == ExistingFeatures(df_weather, features_for_clustering) = <<>>

SomeButNotAllFeatures ==
    /\ ~NoFeatureColumn
    /\ ExistingFeatures(df_weather, features_for_clustering) # features_for_clustering

\* C6: when the staging dataset holds none of the declared feature columns,
\* the run ends with nothing written to the curated store: neither the
\* curated CSV nor the image.
C6_NoFeatureNoOutput ==
    (cpc = "done" /\ Downloaded /\ NoFeatureColumn) => curatedStore = EmptyMap

\* C7: a finished run of the cluster stage has either completed with both
\* the curated CSV and the image persisted, or persisted nothing.
C7_ClusterArtifactsAllOrNothing ==
    cpc = "done" =>
        \/ cexit = "exit 0" /\ DOMAIN curatedStore = {output_object, output_graph_object}
        \/ cexit = "exit 0" /\ ~Downloaded /\ curatedStore = EmptyMap
        \/ cexit = "exit 1" /\ curatedStore = EmptyMap

\* C9: when some but not all declared feature columns exist (and KMeans can
\* fit the retained ones), the run completes and yields both the clustered
\* dataset and the projection the image is drawn from.
C9_PartialFeaturesComplete ==
    (/\ cpc = "done"
     /\ Downloaded
     /\ SomeButNotAllFeatures
     /\ ~KMeansRaises(df_weather,
                      ExistingFeatures(df_weather, features_for_clustering), n_clusters)
     /\ Len(ExistingFeatures(df_weather, features_for_clustering)) >= 2)
    => /\ cexit = "exit 0"
       /\ HasCol(df_with_clusters, "cluster_label")
       /\ HasCol(df_with_clusters, "PCA1")

\* The fixed names of the four labels.
FixedName(label) ==
    CASE label = 0 -> "Cool & Dry"
      [] label = 1 -> "Warm & Humid"
      [] label = 2 -> "Hot & Arid"
      [] label = 3 -> "Extreme Weather"
      [] OTHER -> "Unknown Cluster"

\* perform_kmeans_clustering has labelled the rows of the staging dataset.
Fitted ==
    /\ cpc \in {"clustered", "uploaded", "done"}
    /\ df_with_clusters.raised = ""
    /\ HasCol(df_with_clusters, "cluster_label")

\* C15: get_cluster_names gives each label in 0..3 its fixed name and any
\* other label "Unknown Cluster"; and after the fit with k = 4 every row has
\* a cluster_label in 0..3 and a cluster_name other than "Unknown Cluster".
C15_LabelsHaveFixedNames ==
    /\ cpc = "named" =>
         \A i \in 1..Len(df_with_clusters.rows) :
            LET row == df_with_clusters.rows[i] IN
            /\ row["cluster_name"] = <<FixedName(row["cluster_label"][1])>>
            /\ row["cluster_label"][1] \notin 0..3 => row["cluster_name"] = <<"Unknown Cluster">>
    /\ Fitted =>
         \A i \in 1..Len(df_with_clusters.rows) :
            LET row == df_with_clusters.rows[i] IN
            /\ row["cluster_label"][1] \in 0..3
            /\ row["cluster_name"] = <<FixedName(row["cluster_label"][1])>>
            /\ row["cluster_name"] # <<"Unknown Cluster">>

\* Witness of C15: a fit gave some row the label 3, named Extreme Weather.
C15_Witness ==
    /\ Fitted
    /\ \E i \in 1..Len(df_with_clusters.rows) :
         /\ df_with_clusters.rows[i]["cluster_label"] = <<3>>
         /\ df_with_clusters.rows[i]["cluster_name"] = <<"Extreme Weather">>

C25_ClusteringKeepsRowsAndColumns ==
    Fitted =>
        /\ Len(df_with_clusters.rows) = Len(df_weather.rows)
        /\ SubSeq(df_with_clusters.columns, 1, Len(df_weather.columns)) = df_weather.columns
        /\ HasCol(df_with_clusters, "cluster_label")
        /\ HasCol(df_with_clusters, "cluster_name")
        /\ \A i \in 1..Len(df_weather.rows) :
             /\ \A c \in ColSet(df_weather) :
                  df_with_clusters.rows[i][c] = df_weather.rows[i][c]
             /\ df_with_clusters.rows[i]["cluster_label"]
                  \in {<<l>> : l \in 0..(n_clusters - 1)}
             /\ df_with_clusters.rows[i]["cluster_name"] # NaN

\* Witness of C25: a fit over at least n_clusters rows that hold a column
\* which is not a feature, with two rows given different labels.
C25_Witness ==
    /\ cpc = "clustered"
    /\ Fitted
    /\ Len(df_weather.rows) >= n_clusters
    /\ ColSet(df_weather) \ Range(features_for_clustering) # {}
    /\ Len(df_with_clusters.rows) = Len(df_weather.rows)
    /\ \E i, j \in 1..Len(df_with_clusters.rows) :
         df_with_clusters.rows[i]["cluster_label"] # df_with_clusters.rows[j]["cluster_label"]

\* C26: the curated CSV is persisted before the 2-D projection is computed:
\* the persisted curated dataset holds the staging columns plus cluster_label
\* and cluster_name and never PCA1 or PCA2, which exist only once the upload
\* step is over.
C26_CuratedCsvBeforeProjection ==
    /\ output_object \in DOMAIN curatedStore =>
         /\ curatedStore[output_object].columns
              = df_weather.columns \o <<"cluster_label", "cluster_name">>
         /\ ~HasCol(curatedStore[output_object], "PCA1")
         /\ ~HasCol(curatedStore[output_object], "PCA2")
    /\ (HasCol(df_with_clusters, "PCA1") \/ output_graph_object \in DOMAIN curatedStore) =>
         cpc = "done"

-----------------------------------------------------------------------------
(* Claims about dags/openweather_data_lake.py (SpecDag) *)

\* C8: when the last attempt of a task met a stage-fatal condition, the task
\* is failed or up for retry, and its downstream task has not started.
C8_FatalConditionFailsTask ==
    \A t \in TaskIds :
        (taskState[t] # "running" /\ lastRun[t].fatal # "")
        => /\ taskState[t] \in {"up_for_retry", "failed"}
           /\ \A d \in Downstream(t) : taskState[d] \in {"none", "upstream_failed"}

\* Task t has started an attempt in this DAG run.
Started(t) == tries[t] > 0

\* C27: the tasks start in the order initialize_buckets, data_to_raw,
\* raw_to_staging, staging_to_curated: a task has started only if its
\* predecessor has succeeded (and so every earlier task has), a task is
\* failed only after retries + 1 attempts, and no task after a failed or
\* blocked one has started.
C27_TasksStartInChainOrder ==
    \A i \in 1..Len(Tasks) :
        /\ Started(Tasks[i]) => \A j \in 1..(i - 1) : taskState[Tasks[j]] = "success"
        /\ taskState[Tasks[i]] = "failed" => tries[Tasks[i]] = retries + 1
        /\ taskState[Tasks[i]] \in {"failed", "upstream_failed", "up_for_retry", "running"}
             => \A j \in (i + 1)..Len(Tasks) : ~Started(Tasks[j])

\* Witness of C27: initialize_buckets succeeded on its second attempt, the
\* next two tasks succeeded after it, and staging_to_curated, started last,
\* failed on its third attempt with a script that exited with an error.
C27_Witness ==
    /\ taskState["initialize_buckets"] = "success"
    /\ tries["initialize_buckets"] = 2
    /\ taskState["data_to_raw"] = "success"
    /\ taskState["raw_to_staging"] = "success"
    /\ taskState["staging_to_curated"] = "failed"
    /\ tries["staging_to_curated"] = retries + 1
    /\ CalledProcessError(lastRun["staging_to_curated"])

-----------------------------------------------------------------------------
(* Claims about the numba kernels (SpecKernel) *)

KernelRan == kernelOut # <<>>

\* The calendar band of a day of the year.
Band(d) ==
    IF 80 <= d /\ d < 172 THEN "A"
    ELSE IF 172 <= d /\ d < 264 THEN "B"
    ELSE IF 264 <= d /\ d < 355 THEN "C"
    ELSE "D"

NorthernSeason(band) ==
    CASE band = "A" -> "Spring" [] band = "B" -> "Summer"
      [] band = "C" -> "Autumn" [] band = "D" -> "Winter"

SouthernSeason(band) ==
    CASE band = "A" -> "Autumn" [] band = "B" -> "Winter"
      [] band = "C" -> "Spring" [] band = "D" -> "Summer"

\* C12: for every day of the year and every non-zero latitude, the season is
\* the one the band of the day has in the hemisphere of the latitude; day 100
\* is Spring in the North and Autumn in the South, day 1 is Winter in the
\* North.
C12_SeasonFollowsBandAndHemisphere ==
    (KernelRan /\ kernelIn.lat[1] # 0) =>
        LET d == kernelIn.day_of_year[1]
            north == kernelIn.lat[1] > 0
        IN /\ kernelOut.season =
                  IF north THEN NorthernSeason(Band(d)) ELSE SouthernSeason(Band(d))
           /\ (d = 100 /\ north) => kernelOut.season = "Spring"
           /\ (d = 100 /\ ~north) => kernelOut.season = "Autumn"
           /\ (d = 1 /\ north) => kernelOut.season = "Winter"

\* Witness of C12: day 100 at a Southern latitude came out as Autumn.
C12_Witness ==
    /\ KernelRan
    /\ kernelIn.day_of_year = <<100>>
    /\ kernelIn.lat[1] < 0
    /\ kernelOut.season = "Autumn"

=============================================================================
